---- MODULE Spec2Model ----
(***************************************************************************)
(* A model of whisk.py: the `configure` command.  One run of `configure`   *)
(* reads the project configuration (conf), the command-line arguments and  *)
(* the persisted selection (the cache file), resolves the selection, binds *)
(* the version, checks the layers and writes the output files.             *)
(*                                                                         *)
(* Modelling conventions                                                   *)
(*   - a Python dict is a function; d.get(k, dflt) is Get(d, k, dflt);     *)
(*   - Python None is the string None (no name of the model equals it);    *)
(*   - a --products value is the sequence of its words and blanks, so that *)
(*     str.split() is the removal of the blanks;                           *)
(*   - a path is the sequence of its components, "/" first when absolute;  *)
(*   - an uncaught KeyError ends the run with exit code 1 ("crash").       *)
(***************************************************************************)
EXTENDS Naturals, Sequences, FiniteSets, TLC

VARIABLES conf, valid, cachefile, pre, args, out, last, inited

vars == <<conf, valid, cachefile, pre, args, out, last, inited>>

None == "<None>"

CACHE_VERSION == 1

\* The largest number of selection arguments (--products, --mode, --site,
\* --version, --build-dir) given together in one run.
MaxGiven == 2

EmptyDict == [k \in {} |-> k]

Get(d, k, dflt) == IF k \in DOMAIN d THEN d[k] ELSE dflt

Range(s) == {s[i] : i \in DOMAIN s}

\* Truth value of a Python string-or-None.
Truthy(x) == x # None /\ x # ""

NoPath == <<None>>

\* Truth value of a --build-dir argument: absent (None) and "" are both false.
PathGiven(p) == p # NoPath /\ p # <<>>

CWD == <<"/", "work">>

THIS_DIR == "/whisk"

\* pathlib.Path.absolute(): an absolute path is kept, a relative one is
\* joined to the working directory.
Absolute(p) == IF p # <<>> /\ p[1] = "/" THEN p ELSE CWD \o p

\* The order Python's sorted() gives the names of the model.
NameOrder == <<"p1", "p2", "p3", "px">>

Rank(n) == CHOOSE i \in 1..Len(NameOrder) : NameOrder[i] = n

RECURSIVE Sorted(_)
Sorted(S) ==
  IF S = {} THEN <<>>
  ELSE LET m == CHOOSE x \in S : \A y \in S : Rank(x) <= Rank(y)
       IN <<m>> \o Sorted(S \ {m})

\* str.split(): the words of a string, its blanks dropped.
Split(a) == SelectSeq(a, LAMBDA t : t # " ")

\* sorted(set(itertools.chain(*(a.split() for a in user_args.products))))
UserProducts(flags) == Sorted(UNION {Range(Split(flags[i])) : i \in DOMAIN flags})

(***************************************************************************)
(* The configuration documents.                                            *)
(***************************************************************************)
BaseConf ==
  [version |-> 1,
   modes |-> [m1 |-> [conf |-> "MODE1"], m2 |-> [conf |-> "MODE2"]],
   sites |-> [s1 |-> [conf |-> "SITE1"], s2 |-> [conf |-> "SITE2"]],
   core |-> [layers |-> <<"L0">>],
   products |->
     [p1 |-> [default_version |-> "v1", layers |-> <<"L1">>],
      p2 |-> [default_version |-> "v1", layers |-> <<"L1", "L2">>,
              multiconfigs |-> <<"extra-mc">>],
      p3 |-> [default_version |-> "v2", layers |-> <<"L3">>]],
   versions |->
     [v1 |-> [oeinit |-> "/oe/v1/oe-init-build-env",
              bitbakedir |-> "/oe/v1/bitbake",
              layers |-> <<[name |-> "L0", paths |-> <<"/a">>],
                           [name |-> "L1", paths |-> <<"/b">>],
                           [name |-> "L2", paths |-> <<"/c", "/b">>],
                           [name |-> "L4", paths |-> <<"/e">>]>>],
      v2 |-> [oeinit |-> "/oe/v2/oe-init-build-env",
              pyrex |-> [root |-> "/oe/v2/pyrex", conf |-> "pyrex.ini"],
              layers |-> <<[name |-> "L0", paths |-> <<"/a">>],
                           [name |-> "L3", paths |-> <<"/d">>]>>]]]

DefaultsChoices ==
  { [mode |-> "m1", products |-> <<"p2", "p1">>, site |-> "s1", build_dir |-> <<"out">>],
    [products |-> <<"p3">>],
    [mode |-> "mx", products |-> <<"p1">>, site |-> "s1"] }

\* A document of a later format: the engine refuses it at line 122.
LaterFormatConf == [BaseConf EXCEPT !.version = 2]

\* A document without a products section (line 182 reads the section with
\* conf.get), and one with no modes, sites or versions section.
NoProductsConf ==
  [k \in DOMAIN BaseConf \ {"products"} |-> BaseConf[k]]
  @@ [defaults |-> [mode |-> "m1", site |-> "s1"]]

OnlyProductsConf ==
  [k \in {"version", "products"} |-> BaseConf[k]]
  @@ [defaults |-> [mode |-> "m1", products |-> <<"p1">>, site |-> "s1"]]

Docs ==
  {BaseConf @@ [defaults |-> d] : d \in DefaultsChoices}
  \cup {LaterFormatConf, NoProductsConf, OnlyProductsConf}

(***************************************************************************)
(* The persisted selection file.                                           *)
(***************************************************************************)
AbsentFile == [kind |-> "absent"]

\* A file whose YAML is not a mapping (an empty file loads as None).
ScalarFile == [kind |-> "scalar"]

DictFile(d) == [kind |-> "dict", data |-> d]

\* A selection written by an engine with another cache format.
StaleFile ==
  DictFile([cache_version |-> 0, mode |-> "m2", products |-> <<"p3">>,
            site |-> "s2", version |-> "v2", actual_version |-> "v2",
            build_dir |-> <<"/", "old">>])

InitialFiles == {AbsentFile, ScalarFile, StaleFile}

\* LoadCache without the cache_version check of lines 148-152.
LoadCache_NoVersionCheck(file, no_config) ==
  IF no_config THEN EmptyDict
  ELSE IF file.kind = "dict" THEN file.data
  ELSE EmptyDict

\* Lines 140-152: the cache the run works with.
LoadCache(file, no_config) ==
  IF no_config THEN EmptyDict
  ELSE IF file.kind = "absent" THEN EmptyDict
  ELSE IF file.kind = "scalar" THEN EmptyDict
  ELSE IF Get(file.data, "cache_version", None) # CACHE_VERSION THEN EmptyDict
  ELSE file.data

(***************************************************************************)
(* The local variables of configure(), and its ways to return.             *)
(***************************************************************************)
NoInfo == [product |-> "", layers |-> {}, v |-> "", actual |-> "", key |-> ""]

Fail(s, err, info) == [s EXCEPT !.ret = "error", !.err = err, !.info = info]

Crash(s, key) ==
  [s EXCEPT !.ret = "crash", !.err = "KeyError", !.info = [NoInfo EXCEPT !.key = key]]

\* A run before line 154: none of its local variables is assigned.
NoLocals(file) ==
  [ret |-> "run", err |-> "", info |-> NoInfo,
   cur_mode |-> None, cur_products |-> <<>>, cur_site |-> None,
   cur_version |-> "default", cur_actual_version |-> "",
   build_dir |-> <<"build">>,
   write |-> FALSE, written |-> {},
   env |-> <<>>, siteconf |-> <<>>, bblayers |-> <<>>,
   cachefile |-> file]

\* Lines 118-124: the format version of the loaded document.
DocStep(cf, file) ==
  IF "version" \notin DOMAIN cf
  THEN [NoLocals(file) EXCEPT !.ret = "error", !.err = "DocMissingVersion"]
  ELSE IF cf.version # 1
  THEN [NoLocals(file) EXCEPT !.ret = "error", !.err = "DocBadVersion"]
  ELSE NoLocals(file)

\* Lines 126-131: jsonschema.validate on the document and the schema file of
\* the engine's directory; ok is whether it returns without ValidationError.
SchemaStep(ok, s) ==
  IF s.ret # "run" THEN s
  ELSE IF ~ok THEN [s EXCEPT !.ret = "error", !.err = "SchemaInvalid"]
  ELSE s

\* Locals with write set whatever the command line says.
Locals_AlwaysWrite(cf, file, a) ==
  LET cache == LoadCache(file, a.no_config)
      defaults == Get(cf, "defaults", EmptyDict)
  IN [ret |-> "run", err |-> "", info |-> NoInfo,
      cur_mode |-> Get(cache, "mode", Get(defaults, "mode", None)),
      cur_products |-> Get(cache, "products", Get(defaults, "products", <<>>)),
      cur_site |-> Get(cache, "site", Get(defaults, "site", None)),
      cur_version |-> Get(cache, "version", "default"),
      cur_actual_version |-> Get(cache, "actual_version", ""),
      build_dir |-> Get(cache, "build_dir", Get(defaults, "build_dir", <<"build">>)),
      write |-> TRUE,
      written |-> {},
      env |-> <<>>, siteconf |-> <<>>, bblayers |-> <<>>,
      cachefile |-> file]

\* Locals with the products read from the defaults only, not from the cache.
Locals_ProductsNotCached(cf, file, a) ==
  LET cache == LoadCache(file, a.no_config)
      defaults == Get(cf, "defaults", EmptyDict)
  IN [ret |-> "run", err |-> "", info |-> NoInfo,
      cur_mode |-> Get(cache, "mode", Get(defaults, "mode", None)),
      cur_products |-> Get(defaults, "products", <<>>),
      cur_site |-> Get(cache, "site", Get(defaults, "site", None)),
      cur_version |-> Get(cache, "version", "default"),
      cur_actual_version |-> Get(cache, "actual_version", ""),
      build_dir |-> Get(cache, "build_dir", Get(defaults, "build_dir", <<"build">>)),
      write |-> (a.write \/ a.init),
      written |-> {},
      env |-> <<>>, siteconf |-> <<>>, bblayers |-> <<>>,
      cachefile |-> file]

\* Lines 154-163.
Locals(cf, file, a) ==
  LET cache == LoadCache(file, a.no_config)
      defaults == Get(cf, "defaults", EmptyDict)
  IN [ret |-> "run", err |-> "", info |-> NoInfo,
      cur_mode |-> Get(cache, "mode", Get(defaults, "mode", None)),
      cur_products |-> Get(cache, "products", Get(defaults, "products", <<>>)),
      cur_site |-> Get(cache, "site", Get(defaults, "site", None)),
      cur_version |-> Get(cache, "version", "default"),
      cur_actual_version |-> Get(cache, "actual_version", ""),
      build_dir |-> Get(cache, "build_dir", Get(defaults, "build_dir", <<"build">>)),
      write |-> (a.write \/ a.init),
      written |-> {},
      env |-> <<>>, siteconf |-> <<>>, bblayers |-> <<>>,
      cachefile |-> file]

\* Lines 62-75: the sections print_products, print_modes, print_sites and
\* print_versions subscript, in the order lines 167-173 call them.
PrintedSections == <<"products", "modes", "sites", "versions">>

\* The printed sections the document lacks.
AbsentSections(cf) == SelectSeq(PrintedSections, LAMBDA k : k \notin DOMAIN cf)

\* Lines 165-174.
ListStep(cf, a, s) ==
  IF s.ret # "run" THEN s
  ELSE IF a.list
       THEN IF AbsentSections(cf) # <<>> THEN Crash(s, AbsentSections(cf)[1])
            ELSE [s EXCEPT !.ret = "list"]
  ELSE s

\* Lines 176-186.
ProductsStep(cf, a, s) ==
  IF s.ret # "run" \/ a.products = <<>> THEN s
  ELSE LET up == UserProducts(a.products)
           known == DOMAIN Get(cf, "products", EmptyDict)
           bad == {i \in 1..Len(up) : up[i] \notin known}
           w == [s EXCEPT !.write = TRUE]
       IN IF bad # {}
          THEN LET i == CHOOSE j \in bad : \A k \in bad : j <= k
               IN IF "products" \notin DOMAIN cf THEN Crash(w, "products")
                  ELSE Fail(w, "UnknownProduct", [NoInfo EXCEPT !.product = up[i]])
          ELSE [w EXCEPT !.cur_products = up]

\* ModeStep without the membership check of line 190.
ModeStep_Unchecked(cf, a, s) ==
  IF s.ret # "run" \/ ~Truthy(a.mode) THEN s
  ELSE [s EXCEPT !.write = TRUE, !.cur_mode = a.mode]

\* Lines 188-194.
ModeStep(cf, a, s) ==
  IF s.ret # "run" \/ ~Truthy(a.mode) THEN s
  ELSE LET w == [s EXCEPT !.write = TRUE]
       IN IF "modes" \notin DOMAIN cf THEN Crash(w, "modes")
          ELSE IF a.mode \notin DOMAIN cf.modes
          THEN Fail(w, "UnknownMode", [NoInfo EXCEPT !.key = a.mode])
          ELSE [w EXCEPT !.cur_mode = a.mode]

\* Lines 196-202.
SiteStep(cf, a, s) ==
  IF s.ret # "run" \/ ~Truthy(a.site) THEN s
  ELSE LET w == [s EXCEPT !.write = TRUE]
       IN IF "sites" \notin DOMAIN cf THEN Crash(w, "sites")
          ELSE IF a.site \notin DOMAIN cf.sites
          THEN Fail(w, "UnknownSite", [NoInfo EXCEPT !.key = a.site])
          ELSE [w EXCEPT !.cur_site = a.site]

\* VersionStep without the comparison of line 216: outside an initialization
\* the version argument is taken as at initialization.
VersionStep_Accepts(cf, a, s) ==
  IF s.ret # "run" \/ ~Truthy(a.version) THEN s
  ELSE LET w == [s EXCEPT !.write = TRUE]
       IN IF a.version # "default" /\ "versions" \notin DOMAIN cf
          THEN Crash(w, "versions")
          ELSE IF a.version # "default" /\ a.version \notin DOMAIN cf.versions
          THEN Fail(w, "UnknownVersion", [NoInfo EXCEPT !.key = a.version])
          ELSE [w EXCEPT !.cur_version = a.version]

\* Lines 204-221.
VersionStep(cf, a, s) ==
  IF s.ret # "run" \/ ~Truthy(a.version) THEN s
  ELSE LET w == [s EXCEPT !.write = TRUE]
       IN IF a.init
          THEN IF a.version # "default" /\ "versions" \notin DOMAIN cf
               THEN Crash(w, "versions")
               ELSE IF a.version # "default" /\ a.version \notin DOMAIN cf.versions
               THEN Fail(w, "UnknownVersion", [NoInfo EXCEPT !.key = a.version])
               ELSE [w EXCEPT !.cur_version = a.version]
          ELSE IF a.version # s.cur_version
               THEN Fail(w, "VersionImmutable", [NoInfo EXCEPT !.key = a.version])
               ELSE w

\* BuildDirStep without the check of line 224.
BuildDirStep_Mutable(a, s) ==
  IF s.ret # "run" \/ ~PathGiven(a.build_dir) THEN s
  ELSE [s EXCEPT !.build_dir = a.build_dir]

\* Lines 223-230.
BuildDirStep(a, s) ==
  IF s.ret # "run" \/ ~PathGiven(a.build_dir) THEN s
  ELSE IF ~a.init THEN Fail(s, "BuildDirImmutable", NoInfo)
  ELSE [s EXCEPT !.build_dir = a.build_dir]

\* Lines 232-242.
SelectionStep(s) ==
  IF s.ret # "run" THEN s
  ELSE IF s.cur_products = <<>> THEN Fail(s, "MissingProducts", NoInfo)
  ELSE IF ~Truthy(s.cur_mode) THEN Fail(s, "MissingMode", NoInfo)
  ELSE IF ~Truthy(s.cur_site) THEN Fail(s, "MissingSite", NoInfo)
  ELSE s

\* Lines 249-259: the loop over the products of a "default" version.
RECURSIVE BindLoop(_, _, _, _)
BindLoop(cf, prods, i, actual) ==
  IF i > Len(prods) THEN [st |-> "ok", actual |-> actual, info |-> NoInfo]
  ELSE IF "products" \notin DOMAIN cf
       THEN [st |-> "KeyError", actual |-> actual,
             info |-> [NoInfo EXCEPT !.key = "products"]]
  ELSE IF prods[i] \notin DOMAIN cf.products
       THEN [st |-> "KeyError", actual |-> actual,
             info |-> [NoInfo EXCEPT !.key = prods[i]]]
  ELSE IF "default_version" \notin DOMAIN cf.products[prods[i]]
       THEN [st |-> "KeyError", actual |-> actual,
             info |-> [NoInfo EXCEPT !.key = "default_version"]]
  ELSE LET v == cf.products[prods[i]].default_version
       IN IF actual = None THEN BindLoop(cf, prods, i + 1, v)
          ELSE IF v # actual
               THEN [st |-> "incompatible", actual |-> actual,
                     info |-> [NoInfo EXCEPT !.product = prods[i], !.v = v,
                                              !.actual = actual]]
          ELSE BindLoop(cf, prods, i + 1, actual)

\* BindVersion without the reset of lines 245-246.
BindVersion_KeepsPersisted(cf, init, cur_version, cur_products, cur_actual_version) ==
  IF cur_version = "default"
  THEN BindLoop(cf, cur_products, 1, cur_actual_version)
  ELSE [st |-> "ok", actual |-> cur_version, info |-> NoInfo]

\* Lines 244-261: the concrete version of the run.
BindVersion(cf, init, cur_version, cur_products, cur_actual_version) ==
  LET actual0 == IF init THEN None ELSE cur_actual_version
  IN IF cur_version = "default"
     THEN BindLoop(cf, cur_products, 1, actual0)
     ELSE [st |-> "ok", actual |-> cur_version, info |-> NoInfo]

\* Lines 244-263.
BindStep(cf, a, s) ==
  IF s.ret # "run" THEN s
  ELSE LET b == BindVersion(cf, a.init, s.cur_version, s.cur_products,
                            s.cur_actual_version)
           t == [s EXCEPT !.cur_actual_version = b.actual]
       IN IF b.st = "KeyError" THEN Crash(t, b.info.key)
          ELSE IF b.st = "incompatible"
               THEN Fail(t, "IncompatibleProductVersions", b.info)
          ELSE IF "versions" \notin DOMAIN cf THEN Crash(t, "versions")
          ELSE IF b.actual \notin DOMAIN cf.versions THEN Crash(t, b.actual)
          ELSE t

\* Line 263.
Version(cf, s) == cf.versions[s.cur_actual_version]

\* version.get("layers", []): the layer collections as the version lists them.
VersionLayers(version) == Get(version, "layers", <<>>)

\* The entries of a list that a dict built from it keeps, in the dict's
\* order: a key stays where it was first inserted.
RECURSIVE FirstInserted(_, _)
FirstInserted(ls, i) ==
  IF i > Len(ls) THEN <<>>
  ELSE (IF \A j \in 1..(i - 1) : ls[j].name # ls[i].name THEN <<i>> ELSE <<>>)
       \o FirstInserted(ls, i + 1)

\* The value a dict built from the list holds for the key of entry i: that
\* of the last entry with the key.
LastPaths(ls, i) ==
  ls[CHOOSE j \in DOMAIN ls :
       /\ ls[j].name = ls[i].name
       /\ \A k \in DOMAIN ls : ls[k].name = ls[i].name => k <= j].paths

\* Line 265: cur_layers, a dict from collection name to paths, as the
\* sequence of its items.
CurLayers(version) ==
  LET ls == VersionLayers(version)
      keys == FirstInserted(ls, 1)
  IN [n \in DOMAIN keys |-> [name |-> ls[keys[n]].name, paths |-> LastPaths(ls, keys[n])]]

\* cur_layers.keys()
LayerNames(version) == {CurLayers(version)[i].name : i \in DOMAIN CurLayers(version)}

\* Lines 133-137; the names given to it are "core" and known products.
GetProduct(cf, name) ==
  IF name = "core" THEN Get(cf, "core", EmptyDict) ELSE cf.products[name]

ProductLayers(cf, name) == Range(Get(GetProduct(cf, name), "layers", <<>>))

\* Lines 269-271.
Missing(cf, version, name) == ProductLayers(cf, name) \ LayerNames(version)

\* ["core"] + cur_products
Namespaces(cur_products) == <<"core">> \o cur_products

\* Lines 268-278: the first namespace with a missing collection ends the run.
RECURSIVE CheckLayers(_, _, _, _)
CheckLayers(cf, version, names, i) ==
  IF i > Len(names) THEN [st |-> "ok", info |-> NoInfo]
  ELSE IF names[i] # "core" /\ "products" \notin DOMAIN cf
       THEN [st |-> "KeyError", info |-> [NoInfo EXCEPT !.key = "products"]]
  ELSE IF names[i] # "core" /\ names[i] \notin DOMAIN cf.products
       THEN [st |-> "KeyError", info |-> [NoInfo EXCEPT !.key = names[i]]]
  ELSE IF Missing(cf, version, names[i]) # {}
       THEN [st |-> "missing",
             info |-> [NoInfo EXCEPT !.product = names[i],
                                      !.layers = Missing(cf, version, names[i]),
                                      !.actual = ""]]
  ELSE CheckLayers(cf, version, names, i + 1)

\* Lines 265-278.
LayersStep(cf, s) ==
  IF s.ret # "run" THEN s
  ELSE LET c == CheckLayers(cf, Version(cf, s), Namespaces(s.cur_products), 1)
       IN IF c.st = "KeyError" THEN Crash(s, c.info.key)
          ELSE IF c.st = "missing"
               THEN Fail(s, "MissingLayerCollection",
                         [c.info EXCEPT !.actual = s.cur_actual_version])
          ELSE s

\* Line 314, version.get("pyrex") as a condition: the version holds a pyrex
\* mapping and the mapping is not empty (an empty dict is false).
PyrexGiven(version) ==
  "pyrex" \in DOMAIN version /\ DOMAIN version.pyrex # {}

\* Lines 305-334: the keys of the version that the bootstrap lines of an
\* initialization read with version[...], in the order they are read.
BootstrapKeys(version) ==
  IF PyrexGiven(version)
  THEN <<<<"pyrex", "root">>, <<"oeinit">>, <<"pyrex", "conf">>>>
  ELSE <<<<"oeinit">>>>

\* Whether the version holds the key a bootstrap line reads.
HasKey(version, k) ==
  IF Len(k) = 1 THEN k[1] \in DOMAIN version
  ELSE k[1] \in DOMAIN version /\ k[2] \in DOMAIN version[k[1]]

\* The keys the bootstrap lines read and the version does not hold.
AbsentKeys(version) ==
  SelectSeq(BootstrapKeys(version), LAMBDA k : ~HasKey(version, k))

\* Lines 280-338: the environment-export file is opened; an initialization
\* then reads the bootstrap keys of the bound version.
EnvStep(cf, a, s) ==
  IF s.ret # "run" THEN s
  ELSE LET t == [s EXCEPT !.written = @ \cup {"env"}]
           absent == AbsentKeys(Version(cf, s))
       IN IF a.init /\ absent # <<>>
          THEN Crash(t, absent[1][Len(absent[1])])
          ELSE [t EXCEPT !.env =
                  <<[products |-> s.cur_products, mode |-> s.cur_mode,
                     site |-> s.cur_site, version |-> s.cur_version,
                     actual_version |-> s.cur_actual_version,
                     build_dir |-> Absolute(s.build_dir),
                     init |-> a.init]>>]

\* Lines 343-352: the persisted selection the run dumps.
Selection(s) ==
  [cache_version |-> CACHE_VERSION, mode |-> s.cur_mode,
   products |-> s.cur_products, site |-> s.cur_site,
   version |-> s.cur_version, actual_version |-> s.cur_actual_version,
   build_dir |-> Absolute(s.build_dir)]

\* Lines 340-355.
CacheStep(a, s) ==
  IF s.ret # "run" \/ a.no_config THEN s
  ELSE [s EXCEPT !.written = @ \cup {"cache"}, !.cachefile = DictFile(Selection(s))]

\* Lines 410-412: one multiconfig per active product, and those the active
\* products declare.
Multiconfigs(cf, cur_products) ==
  {"product-" \o cur_products[i] : i \in DOMAIN cur_products}
  \cup UNION {Range(Get(cf.products[cur_products[i]], "multiconfigs", <<>>)) :
               i \in DOMAIN cur_products}

\* Lines 357-426: site.conf is opened, then the site and the mode are looked up.
SiteConfStep(cf, s) ==
  IF s.ret # "run" \/ ~s.write THEN s
  ELSE LET t == [s EXCEPT !.written = @ \cup {"site.conf"}]
       IN IF "sites" \notin DOMAIN cf THEN Crash(t, "sites")
          ELSE IF s.cur_site \notin DOMAIN cf.sites THEN Crash(t, s.cur_site)
          ELSE IF "modes" \notin DOMAIN cf THEN Crash(t, "modes")
          ELSE IF s.cur_mode \notin DOMAIN cf.modes THEN Crash(t, s.cur_mode)
          ELSE [t EXCEPT !.siteconf =
                  <<[site |-> Get(cf.sites[s.cur_site], "conf", ""),
                     mode |-> Get(cf.modes[s.cur_mode], "conf", ""),
                     targets_core |-> s.cur_products,
                     multiconfigs |-> Multiconfigs(cf, s.cur_products)]>>]

\* Lines 428-447: one file per declared product.
ProductConfStep(cf, s) ==
  IF s.ret # "run" \/ ~s.write THEN s
  ELSE [s EXCEPT !.written =
          @ \cup {"product-" \o p \o ".conf" : p \in DOMAIN cf.products}]

\* MaskLines without the test of line 468.
RECURSIVE MaskLines_All(_, _, _, _)
MaskLines_All(cf, layers, name, i) ==
  IF i > Len(layers) THEN <<>>
  ELSE [j \in 1..Len(layers[i].paths) |-> <<name, layers[i].paths[j]>>]
       \o MaskLines_All(cf, layers, name, i + 1)

\* Lines 467-470: the mask directives of one namespace, in file order.
RECURSIVE MaskLines(_, _, _, _)
MaskLines(cf, layers, name, i) ==
  IF i > Len(layers) THEN <<>>
  ELSE (IF layers[i].name \notin ProductLayers(cf, name)
        THEN [j \in 1..Len(layers[i].paths) |-> <<name, layers[i].paths[j]>>]
        ELSE <<>>)
       \o MaskLines(cf, layers, name, i + 1)

\* Lines 463-471.
RECURSIVE AllMaskLines(_, _, _, _)
AllMaskLines(cf, layers, names, i) ==
  IF i > Len(names) THEN <<>>
  ELSE MaskLines(cf, layers, names[i], 1) \o AllMaskLines(cf, layers, names, i + 1)

\* Lines 461-465.
RequestedLayers(cf, names) == UNION {ProductLayers(cf, names[i]) : i \in DOMAIN names}

\* Lines 473-476.
RECURSIVE LayerLines(_, _, _)
LayerLines(layers, requested, i) ==
  IF i > Len(layers) THEN <<>>
  ELSE (IF layers[i].name \in requested THEN layers[i].paths ELSE <<>>)
       \o LayerLines(layers, requested, i + 1)

\* Lines 449-489: bblayers.conf.
BBLayersStep(cf, s) ==
  IF s.ret # "run" \/ ~s.write THEN s
  ELSE LET cur_layers == CurLayers(Version(cf, s))
           names == Namespaces(s.cur_products)
       IN [s EXCEPT !.written = @ \cup {"bblayers.conf"},
                    !.bblayers =
                      <<[masks |-> AllMaskLines(cf, cur_layers, names, 1),
                         layers |-> LayerLines(VersionLayers(Version(cf, s)),
                                               RequestedLayers(cf, names), 1)
                                    \o <<THIS_DIR \o "/meta-whisk">>]>>]

\* Lines 491-504.
ReturnStep(s) == IF s.ret # "run" THEN s ELSE [s EXCEPT !.ret = "ok"]

\* Lines 83-504: one run of configure.
Configure(cf, ok, file, a) ==
  LET d == SchemaStep(ok, DocStep(cf, file))
      s0 == IF d.ret # "run" THEN d ELSE Locals(cf, file, a)
      s1 == ListStep(cf, a, s0)
      s2 == ProductsStep(cf, a, s1)
      s3 == ModeStep(cf, a, s2)
      s4 == SiteStep(cf, a, s3)
      s5 == VersionStep(cf, a, s4)
      s6 == BuildDirStep(a, s5)
      s7 == SelectionStep(s6)
      s8 == BindStep(cf, a, s7)
      s9 == LayersStep(cf, s8)
      s10 == EnvStep(cf, a, s9)
      s11 == CacheStep(a, s10)
      s12 == SiteConfStep(cf, s11)
      s13 == ProductConfStep(cf, s12)
      s14 == BBLayersStep(cf, s13)
  IN ReturnStep(s14)

\* The exit code of the process.
ExitCode(s) == IF s.ret \in {"ok", "list"} THEN 0 ELSE 1

(***************************************************************************)
(* The command lines of the model.                                         *)
(***************************************************************************)
ProductValues ==
  { <<"p1">>, <<"p2", " ", "p1">>, <<"p3">>, <<"p3", " ", "p1">>, <<"px">>, <<>> }

ProductArgs == {<<>>} \cup {<<v>> : v \in ProductValues}

ModeArgs == {None, "", "m2", "mx"}

SiteArgs == {None, "s1", "sx"}

VersionArgs == {None, "default", "v1", "v2", "vx"}

BuildDirArgs == {NoPath, <<>>, <<"bd">>}

ArgSpace(init, list) ==
  [products : ProductArgs, mode : ModeArgs, site : SiteArgs,
   version : VersionArgs, build_dir : BuildDirArgs,
   write : BOOLEAN, no_config : BOOLEAN, init : init, list : list]

\* The number of selection arguments on a command line.
Given(a) ==
  (IF a.products # <<>> THEN 1 ELSE 0) + (IF a.mode # None THEN 1 ELSE 0)
  + (IF a.site # None THEN 1 ELSE 0) + (IF a.version # None THEN 1 ELSE 0)
  + (IF a.build_dir # NoPath THEN 1 ELSE 0)

NoArgs ==
  [products |-> <<>>, mode |-> None, site |-> None, version |-> None,
   build_dir |-> NoPath, write |-> FALSE, no_config |-> FALSE,
   init |-> FALSE, list |-> FALSE]

\* No configure process is alive: no local variable, nothing returned.
NoRun == [NoLocals(AbsentFile) EXCEPT !.ret = "none"]

\* What the next run can observe of a run: whether it was a successful run
\* (not --list) that persisted its selection, and the selection it resolved.
NoLast == [ok |-> FALSE, sel |-> EmptyDict]

Summary(a, s) ==
  IF s.ret = "ok" /\ ~a.no_config THEN [ok |-> TRUE, sel |-> Selection(s)]
  ELSE NoLast

Init ==
  /\ conf \in Docs
  /\ valid \in BOOLEAN
  /\ cachefile \in InitialFiles
  /\ pre = cachefile
  /\ args = NoArgs
  /\ out = NoRun
  /\ last = NoLast
  /\ inited = FALSE

\* The shell is at its prompt: no configure process is alive.
AtPrompt == out.ret = "none"

Run(a) ==
  LET r == Configure(conf, valid, cachefile, a)
  IN /\ args' = a
     /\ out' = r
     /\ pre' = cachefile
     /\ cachefile' = r.cachefile
     /\ inited' = (inited \/ (a.init /\ r.ret = "ok"))
     /\ UNCHANGED <<conf, valid, last>>

\* configure --init ...
Initialize ==
  /\ AtPrompt
  /\ \E a \in ArgSpace({TRUE}, {FALSE}) : Given(a) <= MaxGiven /\ Run(a)

\* configure ... in an environment
Reconfigure ==
  /\ AtPrompt
  /\ \E a \in ArgSpace({FALSE}, {FALSE}) : Given(a) <= MaxGiven /\ Run(a)

\* configure --list ...
List ==
  /\ AtPrompt
  /\ \E a \in ArgSpace(BOOLEAN, {TRUE}) : Given(a) <= MaxGiven /\ Run(a)

\* The process has exited: its arguments and local variables are gone, the
\* files stay.
Exit ==
  /\ ~AtPrompt
  /\ args' = NoArgs
  /\ out' = NoRun
  /\ pre' = cachefile
  /\ last' = Summary(args, out)
  /\ UNCHANGED <<conf, valid, cachefile, inited>>

Next == Initialize \/ Reconfigure \/ List \/ Exit

Spec == Init /\ [][Next]_vars

(***************************************************************************)
(* What the claims speak of.                                               *)
(***************************************************************************)
\* The sections of the document, empty when the document has none.
Products == Get(conf, "products", EmptyDict)

Modes == Get(conf, "modes", EmptyDict)

Sites == Get(conf, "sites", EmptyDict)

Versions == Get(conf, "versions", EmptyDict)

DocErrors == {"DocMissingVersion", "DocBadVersion", "SchemaInvalid"}

\* A configure process has just returned from a run on a ConfigDocument: a
\* document that passed the checks of lines 118-131.
Ran == out.ret # "none" /\ out.err \notin DocErrors

ArgErrors ==
  {"UnknownProduct", "UnknownMode", "UnknownSite", "UnknownVersion",
   "VersionImmutable", "BuildDirImmutable"}

SelectionErrors == {"MissingProducts", "MissingMode", "MissingSite"}

\* The run is past the command-line checks (line 230): its selection is merged.
\* The product names on the command line.
CliNames == UNION {Range(args.products[i]) \ {" "} : i \in DOMAIN args.products}

\* The command line makes the run look into a section the document lacks
\* before line 230 (a run that does so ends there, with a KeyError).
ArgCrash ==
  \/ args.list
  \/ CliNames # {} /\ "products" \notin DOMAIN conf
  \/ Truthy(args.mode) /\ "modes" \notin DOMAIN conf
  \/ Truthy(args.site) /\ "sites" \notin DOMAIN conf
  \/ /\ args.init /\ Truthy(args.version) /\ args.version # "default"
     /\ "versions" \notin DOMAIN conf

Merged ==
  \/ out.ret = "ok"
  \/ (out.ret = "crash" /\ ~ArgCrash)
  \/ (out.ret = "error" /\ out.err \notin ArgErrors \cup DocErrors)

\* The run is past the selection checks (line 242): it came to bind the version.
ReachedBind == Merged /\ out.err \notin SelectionErrors

\* The persisted selection before the run is one the engine accepts.
PersistedValid(file) ==
  file.kind = "dict" /\ Get(file.data, "cache_version", None) = CACHE_VERSION

\* The persisted selection contributes to the run.
PersistedUsed == ~args.no_config /\ PersistedValid(pre)

\* A field by precedence: CLI, then persisted selection, then document default.
ByPrecedence(cliValid, cliValue, field, dflt) ==
  IF cliValid THEN cliValue
  ELSE IF PersistedUsed /\ field \in DOMAIN pre.data THEN pre.data[field]
  ELSE dflt

Defaults == Get(conf, "defaults", EmptyDict)

BuildFiles ==
  {"site.conf", "bblayers.conf"} \cup {"product-" \o p \o ".conf" : p \in DOMAIN Products}

\* A field of the persisted selection file, <<>> when the file holds none.
PersistedField(file, f) ==
  IF file.kind = "dict" /\ f \in DOMAIN file.data THEN <<file.data[f]>> ELSE <<>>

NoSelectionArgs ==
  /\ args.products = <<>> /\ args.mode = None /\ args.site = None
  /\ args.version = None /\ args.build_dir = NoPath

(***************************************************************************)
(* C1                                                                      *)
(***************************************************************************)
\* C1: in every run that is not --list and merges its selection, each field
\* is resolved by precedence on its own: the CLI argument when given and
\* valid, else the persisted value (unless --no-config or a cache_version
\* mismatch), else the document default; on an initialization run so are the
\* symbolic version and the build directory; --products replaces the
\* product set.
C1_Precedence ==
  (Ran /\ ~args.list /\ Merged) =>
    /\ out.cur_mode =
         ByPrecedence(args.mode \in DOMAIN Modes, args.mode, "mode",
                      Get(Defaults, "mode", None))
    /\ out.cur_site =
         ByPrecedence(args.site \in DOMAIN Sites, args.site, "site",
                      Get(Defaults, "site", None))
    /\ IF args.products # <<>>
       THEN Range(out.cur_products) = CliNames
       ELSE out.cur_products =
              ByPrecedence(FALSE, <<>>, "products", Get(Defaults, "products", <<>>))
    /\ args.init =>
         /\ out.cur_version =
              ByPrecedence(args.version \in {"default"} \cup DOMAIN Versions,
                           args.version, "version", "default")
         /\ out.build_dir =
              ByPrecedence(PathGiven(args.build_dir), args.build_dir, "build_dir",
                           Get(Defaults, "build_dir", <<"build">>))

\* A run that takes its mode from the command line, its products from the
\* persisted selection (not the default ones) and succeeds.
C1_Witness ==
  /\ Ran /\ out.ret = "ok" /\ PersistedUsed
  /\ args.mode = "m2" /\ args.products = <<>>
  /\ out.cur_mode = "m2"
  /\ out.cur_products = pre.data.products
  /\ pre.data.products # Get(Defaults, "products", <<>>)

\* A run that finds a persisted selection of another cache format and
\* resolves the document defaults.
C1_WitnessStale ==
  /\ Ran /\ out.ret = "ok" /\ ~args.no_config /\ pre = StaleFile
  /\ args.mode = None
  /\ out.cur_mode = "m1"

(***************************************************************************)
(* C2                                                                      *)
(***************************************************************************)
\* The command line names a product, mode, site or version the document
\* does not declare.
UnknownRequested ==
  \/ CliNames \ DOMAIN Products # {}
  \/ Truthy(args.mode) /\ args.mode \notin DOMAIN Modes
  \/ Truthy(args.site) /\ args.site \notin DOMAIN Sites
  \/ Truthy(args.version) /\ args.version \notin {"default"} \cup DOMAIN Versions

\* C2 as stated: every run that requests an unknown product, mode, site or
\* version ends with exit code 1 and writes nothing, whatever else is on the
\* command line.
C2_Original == (Ran /\ UnknownRequested) => (ExitCode(out) = 1 /\ out.written = {})

\* C2 amended: every run without --list that requests an unknown product,
\* mode, site or version ends with exit code 1 and writes nothing.
C2_UnknownFails ==
  (Ran /\ ~args.list /\ UnknownRequested) =>
    /\ out.written = {}
    /\ cachefile = pre
    /\ ExitCode(out) = 1

\* A run rejected for its unknown mode, its products being fine.
C2_Witness ==
  /\ Ran /\ ~args.list /\ args.mode = "mx" /\ CliNames \subseteq DOMAIN Products
  /\ out.err = "UnknownMode" /\ ExitCode(out) = 1

(***************************************************************************)
(* C3                                                                      *)
(***************************************************************************)
\* The persisted concrete version and build directory are what they were
\* before the run.
C3_Kept ==
  /\ PersistedField(cachefile, "actual_version") = PersistedField(pre, "actual_version")
  /\ PersistedField(cachefile, "build_dir") = PersistedField(pre, "build_dir")

\* C3 as stated: once an initialization run has succeeded, a run that is not
\* an initialization never changes the persisted actual_version or
\* build_dir, and any --build-dir argument on it is rejected with exit
\* code 1.
C3_Original ==
  (Ran /\ inited /\ ~args.init) =>
    (C3_Kept /\ (PathGiven(args.build_dir) => ExitCode(out) = 1))

\* C3 amended: once an initialization run has succeeded, a run that is not
\* an initialization never changes the persisted actual_version or
\* build_dir, and any non-empty --build-dir argument on it is rejected with
\* exit code 1 unless the run is a --list run, which exits 0.
C3_Immutable ==
  (Ran /\ inited /\ ~args.init) =>
    /\ C3_Kept
    /\ PathGiven(args.build_dir) => ExitCode(out) = (IF args.list THEN 0 ELSE 1)

\* A run after initialization that asks for other products, succeeds and
\* rewrites the persisted selection with the same version and directory.
C3_Witness ==
  /\ Ran /\ inited /\ ~args.init /\ out.ret = "ok"
  /\ args.products # <<>> /\ "cache" \in out.written
  /\ cachefile # pre
  /\ PersistedField(pre, "build_dir") # <<>>

\* A --build-dir argument rejected after initialization.
C3_WitnessRejected ==
  /\ Ran /\ inited /\ ~args.init /\ PersistedValid(pre)
  /\ args.build_dir = <<"bd">> /\ out.err = "BuildDirImmutable"

(***************************************************************************)
(* C4                                                                      *)
(***************************************************************************)
\* A run that is not an initialization, in an initialized environment, with
\* a --version argument.
C4_Case == Ran /\ ~args.init /\ inited /\ PersistedValid(pre) /\ Truthy(args.version)

OnlyVersionGiven ==
  /\ args.products = <<>> /\ args.mode = None /\ args.site = None
  /\ args.build_dir = NoPath

\* C4 as stated: such a run ends with exit code 1, nothing written, when the
\* version differs from the persisted symbolic version, and is accepted when
\* it equals it: the run succeeds and resolves the persisted symbolic and
\* concrete version.
C4_Original ==
  C4_Case =>
    IF args.version # pre.data.version
    THEN ExitCode(out) = 1 /\ out.written = {}
    ELSE OnlyVersionGiven =>
           /\ out.ret = "ok"
           /\ out.cur_version = pre.data.version
           /\ out.cur_actual_version = pre.data.actual_version

\* C4 amended: on such a run without --list and without --no-config, a
\* version that differs from the persisted symbolic version ends the run
\* with exit code 1, nothing written (VersionImmutable, unless an unknown
\* product, mode or site is rejected first); an equal version is never
\* rejected as VersionImmutable and, with no other selection argument, the
\* run passes validation and binding and writes its outputs with the
\* persisted symbolic and concrete version.
C4_VersionImmutable ==
  (C4_Case /\ ~args.list /\ ~args.no_config) =>
    IF args.version # pre.data.version
    THEN /\ ExitCode(out) = 1 /\ out.written = {} /\ cachefile = pre
         /\ out.err \in {"VersionImmutable", "UnknownProduct", "UnknownMode", "UnknownSite"}
         /\ OnlyVersionGiven => out.err = "VersionImmutable"
    ELSE /\ out.err # "VersionImmutable"
         /\ OnlyVersionGiven =>
              /\ out.ret \in {"ok", "crash"}
              /\ {"env", "cache"} \subseteq out.written
              /\ out.env[1].version = pre.data.version
              /\ out.env[1].actual_version = pre.data.actual_version

\* The explicit persisted version given again, and accepted.
C4_Witness ==
  /\ C4_Case /\ ~args.list /\ ~args.no_config /\ OnlyVersionGiven
  /\ args.version = "v1" /\ pre.data.version = "v1" /\ out.ret = "ok"

\* Another version than the persisted one, rejected.
C4_WitnessRejected ==
  /\ C4_Case /\ ~args.list /\ ~args.no_config /\ OnlyVersionGiven
  /\ args.version = "v2" /\ pre.data.version = "default"
  /\ out.err = "VersionImmutable"

(***************************************************************************)
(* C5                                                                      *)
(***************************************************************************)
Active == Range(out.cur_products)

AllDeclared == Active \subseteq DOMAIN Products

DefaultVersions == {Products[p].default_version : p \in Active}

\* Binding gave a concrete version (the run went on to look it up).
BindOK ==
  /\ out.err \notin {"IncompatibleProductVersions"}
  /\ out.cur_actual_version \in DefaultVersions \cup {out.cur_version}

\* The concrete version the run started from: the persisted one, or "".
PriorActual ==
  IF PersistedUsed /\ "actual_version" \in DOMAIN pre.data
  THEN pre.data.actual_version ELSE ""

\* C5 as stated, for the initialization runs and the runs that read the
\* persisted selection of an initialized environment: on every such run
\* (initialization or not) that binds a "default" version, products that
\* agree on their default_version bind it, products that disagree fail with
\* IncompatibleProductVersions; an explicit version is the concrete version.
C5_Original ==
  (Ran /\ ReachedBind /\ AllDeclared /\ (args.init \/ (inited /\ PersistedUsed))) =>
    IF out.cur_version = "default"
    THEN /\ Cardinality(DefaultVersions) = 1 =>
              (BindOK /\ {out.cur_actual_version} = DefaultVersions)
         /\ Cardinality(DefaultVersions) > 1 =>
              (out.err = "IncompatibleProductVersions" /\ ExitCode(out) = 1)
    ELSE out.cur_actual_version = out.cur_version

\* C5 amended: on every initialization run that binds a "default" version,
\* products that agree on their default_version bind it; on a run that is
\* not an initialization binding succeeds, and keeps the persisted concrete
\* version, exactly when every active product's default_version equals the
\* persisted concrete version; on every run products that disagree fail with
\* IncompatibleProductVersions; an explicit version is the concrete version.
C5_Binding ==
  (Ran /\ ReachedBind /\ AllDeclared) =>
    IF out.cur_version = "default"
    THEN /\ (args.init /\ Cardinality(DefaultVersions) = 1) =>
              (BindOK /\ {out.cur_actual_version} = DefaultVersions)
         /\ ~args.init =>
              IF DefaultVersions = {PriorActual}
              THEN BindOK /\ out.cur_actual_version = PriorActual
              ELSE out.err = "IncompatibleProductVersions"
         /\ Cardinality(DefaultVersions) > 1 =>
              (out.err = "IncompatibleProductVersions" /\ ExitCode(out) = 1)
    ELSE out.cur_actual_version = out.cur_version

\* An initialization that replaces the persisted concrete version by the
\* common default version of its products.
C5_Witness ==
  /\ Ran /\ args.init /\ out.ret = "ok" /\ out.cur_version = "default"
  /\ PersistedUsed /\ pre.data.actual_version = "v1"
  /\ Cardinality(Active) = 1 /\ out.cur_actual_version = "v2"

\* After a successful run that bound the common default version of its two
\* products, a run that is not an initialization asks for two products of
\* different default versions and fails with IncompatibleProductVersions.
C5_WitnessIncompatible ==
  /\ Ran /\ ~args.init /\ ReachedBind /\ AllDeclared
  /\ last.ok /\ Len(last.sel.products) = 2 /\ last.sel.actual_version = "v1"
  /\ out.cur_version = "default" /\ Cardinality(DefaultVersions) = 2
  /\ out.err = "IncompatibleProductVersions" /\ ExitCode(out) = 1

\* Disagreeing products at an initialization.
C5_WitnessIncompatibleInit ==
  /\ Ran /\ args.init /\ ReachedBind /\ AllDeclared
  /\ out.cur_version = "default" /\ Cardinality(DefaultVersions) = 2
  /\ out.err = "IncompatibleProductVersions" /\ ExitCode(out) = 1

\* Two products of one default version, bound at initialization.
C5_WitnessTwo ==
  /\ Ran /\ args.init /\ out.ret = "ok" /\ out.cur_version = "default"
  /\ Cardinality(Active) = 2 /\ out.cur_actual_version = "v1"

(***************************************************************************)
(* C6                                                                      *)
(***************************************************************************)
\* The run came to check the layers of a bound version.
ReachedLayers ==
  /\ ReachedBind /\ AllDeclared
  /\ out.err # "IncompatibleProductVersions"
  /\ out.cur_actual_version \in DOMAIN Versions

\* The namespaces of the run with a collection missing in the bound version,
\* by their place in ["core"] + cur_products.
\* The layer collections a namespace declares.
Declared(name) ==
  LET d == IF name = "core" THEN Get(conf, "core", EmptyDict) ELSE Products[name]
  IN Range(Get(d, "layers", <<>>))

\* The layer collections of the bound version.
Bound ==
  LET ls == Get(Versions[out.cur_actual_version], "layers", <<>>)
  IN {ls[i].name : i \in DOMAIN ls}

MissingOf(name) == Declared(name) \ Bound

Affected ==
  {i \in DOMAIN Namespaces(out.cur_products) :
     MissingOf(Namespaces(out.cur_products)[i]) # {}}

AllMissing == UNION {MissingOf(Namespaces(out.cur_products)[i]) : i \in Affected}

\* C6 as stated: when namespaces declare collections missing in the bound
\* version the run fails, nothing written, with one MissingLayerCollection
\* error that lists the missing collections of every affected namespace.
C6_Original ==
  (Ran /\ ReachedLayers /\ Affected # {}) =>
    /\ ExitCode(out) = 1 /\ out.written = {}
    /\ out.err = "MissingLayerCollection"
    /\ out.info.layers = AllMissing

\* Two affected namespaces: the error of the run lists the collections of
\* the first one only.
C6_FirstOnly ==
  /\ Ran /\ ReachedLayers /\ Cardinality(Affected) = 2
  /\ out.err = "MissingLayerCollection"
  /\ out.info.layers # AllMissing

(***************************************************************************)
(* C7                                                                      *)
(***************************************************************************)
BuildWritten == out.written \cap BuildFiles # {}

\* C7 as stated: the build-directory files are written only in a run with
\* --write or an initialization run.
C7_Original == (Ran /\ BuildWritten) => (args.write \/ args.init)

\* The command line gives a non-empty --products, --mode, --site or --version.
SelectionGiven ==
  args.products # <<>> \/ Truthy(args.mode) \/ Truthy(args.site) \/ Truthy(args.version)

\* C7 amended: the build-directory files are written only in a run with
\* --write, an initialization run, or a run given a non-empty --products,
\* --mode, --site or --version; every successful run of these writes all of
\* them, every other run writes none.
C7_WriteOnlyIf ==
  Ran =>
    /\ BuildWritten => (args.write \/ args.init \/ SelectionGiven)
    /\ out.ret = "ok" =>
         (BuildFiles \subseteq out.written <=> (args.write \/ args.init \/ SelectionGiven))

\* A successful run that only reports: no build-directory file written.
C7_Witness ==
  /\ Ran /\ out.ret = "ok" /\ ~args.write /\ ~args.init /\ NoSelectionArgs
  /\ out.written = {"env", "cache"}

\* A run with --mode and without --write that writes the build directory.
C7_WitnessMode ==
  /\ Ran /\ out.ret = "ok" /\ ~args.write /\ ~args.init /\ args.mode = "m2"
  /\ BuildFiles \subseteq out.written

(***************************************************************************)
(* C8                                                                      *)
(***************************************************************************)
\* The run follows a successful run that persisted its selection, and is
\* itself given no selection argument, no --list and no --no-config.
C8_Case == Ran /\ last.ok /\ NoSelectionArgs /\ ~args.list /\ ~args.no_config

\* C8: after a successful run (not --list) with caching enabled, a following
\* run with no selection arguments resolves the same mode, products, site,
\* symbolic and concrete version and build directory, and leaves the
\* persisted selection as the prior run wrote it.
C8_Rerun ==
  C8_Case =>
    /\ Merged
    /\ out.cur_mode = last.sel.mode
    /\ out.cur_products = last.sel.products
    /\ out.cur_site = last.sel.site
    /\ out.cur_version = last.sel.version
    /\ out.cur_actual_version = last.sel.actual_version
    /\ Absolute(out.build_dir) = last.sel.build_dir
    /\ cachefile = DictFile(last.sel)
    /\ cachefile = pre

\* A re-run of a selection that is not the document's default one: explicit
\* version, other mode, a build directory given at initialization.
C8_Witness ==
  /\ C8_Case /\ out.ret = "ok" /\ "cache" \in out.written
  /\ last.sel.version = "v1" /\ last.sel.mode = "m2"

\* A re-run as an initialization, which binds the "default" version anew.
C8_WitnessInit ==
  /\ C8_Case /\ args.init /\ out.ret = "ok"
  /\ last.sel.version = "default" /\ last.sel.build_dir = CWD \o <<"bd">>

(***************************************************************************)
(* C9                                                                      *)
(***************************************************************************)
\* C9: a run writes the environment-export file, the persisted selection or
\* a build-directory file only if every resolved product, the resolved mode
\* and the resolved site are declared in the document, wherever they came
\* from; otherwise it ends with exit code 1 having written nothing.
C9_FailsClosed ==
  Ran =>
    IF /\ Range(out.cur_products) \subseteq DOMAIN Products
       /\ out.cur_mode \in DOMAIN Modes
       /\ out.cur_site \in DOMAIN Sites
    THEN TRUE
    ELSE args.list \/ (ExitCode(out) = 1 /\ out.written = {})

(***************************************************************************)
(* C10                                                                     *)
(***************************************************************************)
\* The layer-path file of the run, and what it was written from.
BB == out.bblayers[1]

\* The collections of the bound version: as its list declares them, and as
\* the items of the name-to-paths dict built from the list.
BBVersionLayers == VersionLayers(Version(conf, out))

BBCurLayers == CurLayers(Version(conf, out))

BBNamespaces == Range(Namespaces(out.cur_products))

Masked(n, path) == <<n, path>> \in Range(BB.masks)

\* The concatenation of a sequence of sequences.
RECURSIVE Flatten(_)
Flatten(ss) == IF ss = <<>> THEN <<>> ELSE Head(ss) \o Flatten(Tail(ss))

\* The paths of the collections that satisfy Keep, in declared order.
PathsWhere(layers, Keep(_)) ==
  Flatten([i \in DOMAIN layers |-> IF Keep(layers[i].name) THEN layers[i].paths ELSE <<>>])

\* The include list is the paths of the requested collections in declared
\* order, then the engine's own layer.
C10_Includes ==
  BB.layers =
    PathsWhere(BBVersionLayers,
               LAMBDA c : \E n \in BBNamespaces : c \in ProductLayers(conf, n))
    \o <<THIS_DIR \o "/meta-whisk">>

\* C10 as stated: after the layer-path file is written, the paths of a
\* collection are masked for a namespace exactly when the collection is not
\* in the namespace's layer list, and the include list is the paths of the
\* requested collections in declared order; so no path of a collection a
\* namespace requested is masked for it.
C10_Original ==
  (Ran /\ out.bblayers # <<>>) =>
    /\ \A n \in BBNamespaces : \A i \in DOMAIN BBCurLayers :
         (\A k \in DOMAIN BBCurLayers[i].paths : Masked(n, BBCurLayers[i].paths[k]))
           <=> BBCurLayers[i].name \notin ProductLayers(conf, n)
    /\ C10_Includes

\* C10 amended: after the layer-path file is written, the mask directives
\* of a namespace are exactly the paths of the collections that are not in
\* the namespace's layer list, in declared order (so a path is masked for a
\* namespace exactly when some collection outside its list holds it, also
\* when a collection in its list holds it too), and the include list is the
\* paths of the requested collections in declared order; so every included
\* path of a collection a namespace did not request is masked for it.
C10_Masks ==
  (Ran /\ out.bblayers # <<>>) =>
    /\ \A n \in BBNamespaces :
         SelectSeq(BB.masks, LAMBDA m : m[1] = n) =
           [k \in DOMAIN PathsWhere(BBCurLayers,
                                    LAMBDA c : c \notin ProductLayers(conf, n)) |->
              <<n, PathsWhere(BBCurLayers,
                              LAMBDA c : c \notin ProductLayers(conf, n))[k]>>]
    /\ \A m \in Range(BB.masks) : m[1] \in BBNamespaces
    /\ C10_Includes

\* A layer-path file with a collection nobody requested (masked, not
\* included) and a path that a requested and an unrequested collection share.
C10_Witness ==
  /\ Ran /\ out.ret = "ok" /\ out.bblayers # <<>>
  /\ out.cur_products = <<"p1">> /\ out.cur_actual_version = "v1"
  /\ Masked("p1", "/b") /\ Masked("core", "/e")
  /\ "/e" \notin Range(BB.layers) /\ "/b" \in Range(BB.layers)

====
